---- MODULE Spec2Model ----
(***************************************************************************)
(* Model of src/download.py: a script that validates a model id and a      *)
(* token, probes the CivitAI metadata endpoint and hands the download to   *)
(* wget.  A Python str is a sequence of characters; each character is a    *)
(* one-element name ("7", "x", "U00B2" for SUPERSCRIPT TWO).  A string     *)
(* literal of the source is kept as one element, so an f-string is the     *)
(* concatenation of its literal pieces and its interpolated values.        *)
(***************************************************************************)
EXTENDS Integers, Sequences, FiniteSets

VARIABLES argv, environ, pc, args, token, response, result,
          requests_log, subprocess_log, stdout, stderr, exitCode,
          run, probes

vars == <<argv, environ, pc, args, token, response, result,
          requests_log, subprocess_log, stdout, stderr, exitCode,
          run, probes>>

(* ------------------------------ bounds -------------------------------- *)

MaxModelLen == 2

(* ------------------------- values and inputs --------------------------- *)

\* Python's None and a present str value.
None == [some |-> FALSE, val |-> <<>>]
Some(s) == [some |-> TRUE, val |-> s]

SeqsUpTo(S, n) == UNION {[1..k -> S] : k \in 0..n}

\* Characters a model id is drawn from: an ASCII digit, a letter, and
\* U+00B2 SUPERSCRIPT TWO (a non-ASCII character of Unicode type Digit).
AsciiDigits == {"0", "1", "2", "3", "4", "5", "6", "7", "8", "9"}
UnicodeDigits == {"U00B2", "U0663"}
ModelChars == {"7", "x", "U00B2"}

ModelStrings == SeqsUpTo(ModelChars, MaxModelLen)

\* Token values: the empty string, two one-character tokens (one of them a
\* character that is special in a URL) and a longer one.
TokenStrings == {<<>>, <<"a">>, <<"&">>, <<"a", "&">>}

\* What a command line gives argparse: -h present or not, --model's value
\* (None when the option is missing), --token's value (None when missing).
CommandLines ==
    [help : BOOLEAN,
     model : {None} \cup {Some(s) : s \in ModelStrings},
     token : {None} \cup {Some(s) : s \in TokenStrings}]

\* The civitai_token environment variable: unset (None) or set, possibly "".
Environments == {None} \cup {Some(s) : s \in TokenStrings}

\* Outcomes of the two external calls.
StatusCodes == {200, 204, 404, 503}
ReturnCodes == {0, 8, -9}
ConnectionError == [raised |-> TRUE, status_code |-> 0]
Response(code) == [raised |-> FALSE, status_code |-> code]
FileNotFoundError == [raised |-> TRUE, returncode |-> 0]
CompletedProcess(rc) == [raised |-> FALSE, returncode |-> rc]
NoResponse == [raised |-> FALSE, status_code |-> -1]
NoResult == [raised |-> FALSE, returncode |-> -1]

\* Printed texts.
MSG_MODEL == "Error: model ID must be numeric."
MSG_TOKEN == "Error: no token provided. Set the 'civitai_token' environment variable or use --token."
MSG_WGET == "Error: wget download failed."
MSG_METADATA == "Error: Failed to retrieve model metadata."
MSG_HELP == "usage: download.py [-h] -m MODEL [-t TOKEN]"
MSG_USAGE == "download.py: error: the following arguments are required: -m/--model"
MSG_TRACEBACK == "Traceback (most recent call last):"

(* --------------------------- pure functions ---------------------------- *)

\* str.isdigit(): non-empty and every character is a Unicode digit.
isdigit(s) ==
    /\ Len(s) > 0
    /\ \A i \in 1..Len(s) : s[i] \in AsciiDigits \cup UnicodeDigits

\* os.getenv(key, default): the variable's value when it is set (an empty
\* value included), the default otherwise.
os_getenv(env, default) == IF env.some THEN env ELSE default

\* Python truthiness of an Optional[str]: None and "" are falsy.
Truthy(v) == v.some /\ v.val # <<>>

\* Variant of line 15 in which the command line wins over the environment.
ResolvedToken_explicit_first ==
    IF args.token.some THEN args.token ELSE environ

\* Line 15.
ResolvedToken == os_getenv(environ, args.token)

\* Line 16: the condition of the model id check.
ModelRejected == ~isdigit(args.model.val)

\* Variant of line 21 written as "token is None".
TokenMissing_only_none == ~token.some

\* Line 21: the condition of the token check.
TokenMissing == ~Truthy(token)

\* Variant of line 26 that sends the token with the probe.
url_with_token ==
    <<"https://civitai.com/api/v1/model-versions/">> \o args.model.val
        \o <<"?token=">> \o token.val

\* Line 26.
url == <<"https://civitai.com/api/v1/model-versions/">> \o args.model.val

\* Variant of line 30 written as response.ok (any 2xx status).
StatusOk_any_2xx == response.status_code \in 200..299

\* Line 30.
StatusOk == response.status_code = 200

\* urllib.parse.quote on the characters of the model: "&" becomes "%26".
quote(s) == [i \in 1..Len(s) |-> IF s[i] = "&" THEN "%26" ELSE s[i]]

\* Variant of line 31 that percent-encodes the token.
download_url_quoted ==
    <<"https://civitai.com/api/download/models/">> \o args.model.val
        \o <<"?type=Model&format=SafeTensor&token=">> \o quote(token.val)

\* Line 31.
download_url ==
    <<"https://civitai.com/api/download/models/">> \o args.model.val
        \o <<"?type=Model&format=SafeTensor&token=">> \o token.val

\* Line 32: the argument list handed to subprocess.run.
WgetCommand == <<"wget", download_url, "--content-disposition">>

\* Variant of line 33 written as "returncode > 0".
WgetFailed_positive_only == result.returncode > 0

\* Line 33.
WgetFailed == result.returncode # 0

(* ------------------------------ actions -------------------------------- *)

NoCommandLine == [help |-> FALSE, model |-> None, token |-> None]

\* Nothing of a run has happened yet.
Fresh ==
    /\ argv = NoCommandLine
    /\ environ = None
    /\ pc = "start"
    /\ args = [model |-> None, token |-> None]
    /\ token = None
    /\ response = NoResponse
    /\ result = NoResult
    /\ requests_log = <<>>
    /\ subprocess_log = <<>>
    /\ stdout = <<>>
    /\ stderr = <<>>
    /\ exitCode = -1

Init ==
    /\ Fresh
    /\ run = "first"
    /\ probes = {}

\* The script is started with some command line and environment.
Start ==
    /\ pc = "start"
    /\ argv' \in CommandLines
    /\ environ' \in Environments
    /\ pc' = "parse_args"
    /\ UNCHANGED <<args, token, response, result, requests_log,
                   subprocess_log, stdout, stderr, exitCode, run, probes>>

\* sys.exit(code) after printing msg on stdout.
PrintAndExit(msg, code) ==
    /\ stdout' = Append(stdout, msg)
    /\ exitCode' = code
    /\ pc' = "exited"

\* An exception nobody catches: the interpreter prints the traceback on
\* stderr and exits with status 1.
Uncaught ==
    /\ stderr' = Append(stderr, MSG_TRACEBACK)
    /\ exitCode' = 1
    /\ pc' = "exited"

\* Lines 8-11: parser.parse_args().  -h prints the help and exits 0; a
\* missing required --model prints the usage error and exits 2.
ParseArgs ==
    /\ pc = "parse_args"
    /\ IF argv.help
         THEN /\ PrintAndExit(MSG_HELP, 0)
              /\ UNCHANGED <<args, stderr>>
         ELSE IF ~argv.model.some
           THEN /\ stderr' = Append(stderr, MSG_USAGE)
                /\ exitCode' = 2
                /\ pc' = "exited"
                /\ UNCHANGED <<args, stdout>>
           ELSE /\ args' = [model |-> argv.model, token |-> argv.token]
                /\ pc' = "getenv"
                /\ UNCHANGED <<stdout, stderr, exitCode>>
    /\ UNCHANGED <<argv, environ, token, response, result, requests_log,
                   subprocess_log, run, probes>>

\* Line 15: token = os.getenv("civitai_token", args.token).
GetToken ==
    /\ pc = "getenv"
    /\ token' = ResolvedToken
    /\ pc' = "check_model"
    /\ UNCHANGED <<argv, environ, args, response, result, requests_log,
                   subprocess_log, stdout, stderr, exitCode, run, probes>>

\* Lines 16-18.
ValidateModel ==
    /\ pc = "check_model"
    /\ IF ModelRejected
         THEN PrintAndExit(MSG_MODEL, 1)
         ELSE /\ pc' = "check_token"
              /\ UNCHANGED <<stdout, exitCode>>
    /\ UNCHANGED <<argv, environ, args, token, response, result, requests_log,
                   subprocess_log, stderr, run, probes>>

\* Lines 21-23.
CheckToken ==
    /\ pc = "check_token"
    /\ IF TokenMissing
         THEN PrintAndExit(MSG_TOKEN, 1)
         ELSE /\ pc' = "get"
              /\ UNCHANGED <<stdout, exitCode>>
    /\ UNCHANGED <<argv, environ, args, token, response, result, requests_log,
                   subprocess_log, stderr, run, probes>>

\* Lines 26-29: response = requests.get(url, stream=True).  The call
\* either returns a response with some status or raises.
Get ==
    /\ pc = "get"
    /\ requests_log' = Append(requests_log, url)
    /\ probes' = probes \cup {[model |-> args.model.val, token |-> token.val, url |-> url]}
    /\ \/ \E code \in StatusCodes :
            /\ response' = Response(code)
            /\ pc' = "check_status"
            /\ UNCHANGED <<stderr, exitCode>>
       \/ /\ response' = ConnectionError
          /\ Uncaught
    /\ UNCHANGED <<argv, environ, args, token, result, subprocess_log,
                   stdout, run>>

\* Lines 30 and 36-38.
CheckStatus ==
    /\ pc = "check_status"
    /\ IF StatusOk
         THEN /\ pc' = "wget"
              /\ UNCHANGED <<stdout, exitCode>>
         ELSE PrintAndExit(MSG_METADATA, 1)
    /\ UNCHANGED <<argv, environ, args, token, response, result, requests_log,
                   subprocess_log, stderr, run, probes>>

\* Lines 31-32: subprocess.run(["wget", download_url, ...], check=False).
\* The tool runs to some return code, or cannot be launched.
Wget ==
    /\ pc = "wget"
    /\ subprocess_log' = Append(subprocess_log, WgetCommand)
    /\ \/ \E rc \in ReturnCodes :
            /\ result' = CompletedProcess(rc)
            /\ pc' = "check_result"
            /\ UNCHANGED <<stderr, exitCode>>
       \/ /\ result' = FileNotFoundError
          /\ Uncaught
    /\ UNCHANGED <<argv, environ, args, token, response, requests_log,
                   stdout, run, probes>>

\* Lines 33-35, then the end of the script (exit status 0).
CheckResult ==
    /\ pc = "check_result"
    /\ IF WgetFailed
         THEN PrintAndExit(MSG_WGET, 1)
         ELSE /\ exitCode' = 0
              /\ pc' = "exited"
              /\ UNCHANGED stdout
    /\ UNCHANGED <<argv, environ, args, token, response, result, requests_log,
                   subprocess_log, stderr, run, probes>>

\* The finished script is started a second time: a new process, with
\* nothing kept but what the first one put on the network.
Rerun ==
    /\ pc = "exited"
    /\ run = "first"
    /\ run' = "second"
    /\ argv' = NoCommandLine
    /\ environ' = None
    /\ pc' = "start"
    /\ args' = [model |-> None, token |-> None]
    /\ token' = None
    /\ response' = NoResponse
    /\ result' = NoResult
    /\ requests_log' = <<>>
    /\ subprocess_log' = <<>>
    /\ stdout' = <<>>
    /\ stderr' = <<>>
    /\ exitCode' = -1
    /\ UNCHANGED probes

Next ==
    \/ Start
    \/ ParseArgs
    \/ GetToken
    \/ ValidateModel
    \/ CheckToken
    \/ Get
    \/ CheckStatus
    \/ Wget
    \/ CheckResult
    \/ Rerun

Spec == Init /\ [][Next]_vars

(* ------------------------- vocabulary of the claims -------------------- *)

\* parse_args() returned a namespace (the run got past line 11).
Parsed == args.model.some

\* Line 15 has run.
TokenResolved == Parsed /\ pc # "getenv"

Exited == pc = "exited"

\* The four error kinds: the message printed and the exit status 1.
FailedWith(msg) ==
    Exited /\ exitCode = 1 /\ stdout = <<msg>> /\ stderr = <<>>
InvalidInput == FailedWith(MSG_MODEL)
MissingCredential == FailedWith(MSG_TOKEN)
MetadataLookupFailed == FailedWith(MSG_METADATA)
DownloadFailed == FailedWith(MSG_WGET)

\* The metadata GET came back with a status / the tool ran to a return code.
GetReturned == response # NoResponse /\ ~response.raised
ToolExited == result # NoResult /\ ~result.raised

\* ^[0-9]+$
MatchesDigitsRegex(s) ==
    Len(s) > 0 /\ \A i \in 1..Len(s) : s[i] \in AsciiDigits

\* A token is resolvable when the command line or the environment supplies
\* a non-empty value.
Resolvable == Truthy(args.token) \/ Truthy(environ)

NoNetworkCall == requests_log = <<>> /\ subprocess_log = <<>>

(* ------------------------------- claims -------------------------------- *)

\* C1 (as stated): when --token and civitai_token are both non-empty, the
\* resolved token, and the token in the download URL, is the --token value.
C1_ExplicitTokenWins ==
    (TokenResolved /\ Truthy(args.token) /\ Truthy(environ)) =>
        /\ token = args.token
        /\ \A i \in DOMAIN subprocess_log :
             subprocess_log[i][2] =
                 <<"https://civitai.com/api/download/models/">>
                     \o args.model.val
                     \o <<"?type=Model&format=SafeTensor&token=">>
                     \o args.token.val

\* C1 (amended): when --token and civitai_token are both non-empty, the
\* resolved token, and the token in the download URL, is the value of the
\* civitai_token environment variable.
C1_EnvironmentTokenWins ==
    (TokenResolved /\ Truthy(args.token) /\ Truthy(environ)) =>
        /\ token = environ
        /\ \A i \in DOMAIN subprocess_log :
             subprocess_log[i][2] =
                 <<"https://civitai.com/api/download/models/">>
                     \o args.model.val
                     \o <<"?type=Model&format=SafeTensor&token=">>
                     \o environ.val

C1_Witness ==
    /\ Truthy(args.token) /\ Truthy(environ) /\ args.token # environ
    /\ Len(subprocess_log) = 1

\* C2: a model string that does not match ^[0-9]+$ ends the run with
\* InvalidInput and exit code 1, and neither the metadata GET nor the
\* download tool is ever issued.
C2_NonDigitRejected ==
    (Parsed /\ ~MatchesDigitsRegex(args.model.val)) =>
        /\ NoNetworkCall
        /\ Exited => InvalidInput

\* C3: a run with an all-digit model id fails with MissingCredential (and
\* no network call) exactly when neither --token nor civitai_token supplies
\* a non-empty value; a non-empty --token never gives MissingCredential.
C3_MissingCredentialIffUnresolvable ==
    (Exited /\ Parsed /\ MatchesDigitsRegex(args.model.val)) =>
        /\ MissingCredential <=> ~Resolvable
        /\ MissingCredential => NoNetworkCall
        /\ Truthy(args.token) => ~MissingCredential

\* C4: when the metadata GET returns a status other than 200 the run ends
\* with MetadataLookupFailed and exit code 1 and the download tool is
\* never invoked.
C4_Non200FailsWithoutDownload ==
    (GetReturned /\ response.status_code # 200) =>
        /\ subprocess_log = <<>>
        /\ pc \in {"check_status", "exited"}
        /\ Exited => MetadataLookupFailed

C4_Witness ==
    /\ Exited /\ GetReturned /\ response.status_code = 204
    /\ isdigit(args.model.val) /\ Truthy(token)

\* C5: when the metadata GET returns 200 the download tool is invoked
\* exactly once, with the download URL holding the model id and the
\* resolved token verbatim and with --content-disposition.
C5_DownloadInvokedOnceWithUrl ==
    (GetReturned /\ response.status_code = 200) =>
        /\ Len(subprocess_log) <= 1
        /\ pc # "check_status" =>
             /\ pc \in {"wget", "check_result", "exited"}
             /\ pc # "wget" => Len(subprocess_log) = 1
        /\ \A i \in DOMAIN subprocess_log :
             subprocess_log[i] =
                 << "wget",
                    <<"https://civitai.com/api/download/models/">>
                        \o args.model.val
                        \o <<"?type=Model&format=SafeTensor&token=">>
                        \o token.val,
                    "--content-disposition" >>

C5_Witness ==
    /\ Exited /\ GetReturned /\ response.status_code = 200
    /\ Len(subprocess_log) = 1
    /\ token.val = <<"&">>

\* C6 (as stated): once the tool has run, exit code 0 if it returned zero
\* and DownloadFailed with exit code 1 otherwise; the process exits 0 only
\* in runs where the GET returned 200 and the tool returned zero.
C6_ExitZeroOnlyAfterDownload ==
    /\ (Exited /\ ToolExited) =>
         IF result.returncode = 0 THEN exitCode = 0 ELSE DownloadFailed
    /\ (Exited /\ exitCode = 0) =>
         /\ GetReturned /\ response.status_code = 200
         /\ ToolExited /\ result.returncode = 0

\* C6 (amended): once the tool has run, exit code 0 if it returned zero and
\* DownloadFailed with exit code 1 otherwise; the process exits 0 only in
\* runs where the GET returned 200 and the tool returned zero, or in runs
\* where -h made parse_args print the help and exit before any check.
C6_ExitZeroOnlyAfterDownloadOrHelp ==
    /\ (Exited /\ ToolExited) =>
         IF result.returncode = 0 THEN exitCode = 0 ELSE DownloadFailed
    /\ (Exited /\ exitCode = 0) =>
         \/ /\ GetReturned /\ response.status_code = 200
            /\ ToolExited /\ result.returncode = 0
         \/ /\ argv.help /\ ~Parsed /\ stdout = <<MSG_HELP>>
            /\ NoNetworkCall

C6_Witness ==
    Exited /\ ToolExited /\ result.returncode = -9 /\ DownloadFailed

\* C7: a run that does not succeed ends in exactly one of the four error
\* kinds with exit code 1 and that kind's message, also when the GET
\* raises or the tool cannot be launched; no exit code other than 0 or 1.
C7_OnlyFourErrorKinds ==
    Exited =>
        /\ exitCode \in {0, 1}
        /\ exitCode # 0 =>
             \/ InvalidInput
             \/ MissingCredential
             \/ MetadataLookupFailed
             \/ DownloadFailed

\* C8: in a run, at most one metadata GET and at most one download
\* invocation; a download is preceded by a GET that returned 200; both
\* checks (model id, then token) passed before the GET is issued.
C8_AtMostOnceInOrder ==
    /\ Len(requests_log) <= 1
    /\ Len(subprocess_log) <= 1
    /\ subprocess_log # <<>> =>
         /\ Len(requests_log) = 1
         /\ response = Response(200)
    /\ requests_log # <<>> =>
         /\ isdigit(args.model.val)
         /\ Truthy(token)
         /\ stdout \in {<<>>, <<MSG_METADATA>>, <<MSG_WGET>>}

C8_Witness ==
    /\ Exited /\ exitCode = 1
    /\ Len(requests_log) = 1 /\ Len(subprocess_log) = 1

\* C9: when the model id is not all-digit and no token is resolvable, the
\* run fails with InvalidInput, not MissingCredential; MissingCredential
\* is reported only for runs whose model id passed validation.
C9_ModelCheckedBeforeToken ==
    /\ (Exited /\ Parsed /\ ~MatchesDigitsRegex(args.model.val)
          /\ ~Resolvable) => InvalidInput
    /\ MissingCredential => (Parsed /\ isdigit(args.model.val))

\* C10: the metadata GET URL is the fixed prefix followed by the model id
\* and nothing of the token: runs with the same model id and different
\* tokens issue the identical metadata request.
C10_ProbeIndependentOfToken ==
    /\ \A i \in DOMAIN requests_log :
         requests_log[i] =
             <<"https://civitai.com/api/v1/model-versions/">>
                 \o args.model.val
    /\ \A p, q \in probes : p.model = q.model => p.url = q.url

C10_Witness ==
    /\ \E p, q \in probes : p.model = q.model /\ p.token # q.token
    /\ Len(subprocess_log) = 1

====
